---------------------------- MODULE Spec2Model ----------------------------
(***************************************************************************)
(* A model of message-format.rs: the ICU template parser (icu/parse.rs),   *)
(* the argument chain (args.rs), Message (message.rs) and the format nodes *)
(* (icu/ast/*.rs).                                                         *)
(*                                                                         *)
(* Text is a TLA+ string; TLC treats a string as the sequence of its       *)
(* characters (Len, SubSeq, \o), so the parser works character by          *)
(* character as the nom combinators do.                                    *)
(***************************************************************************)
EXTENDS Integers, Sequences, FiniteSets, TLC

(***************************************************************************)
(* Bounds of the model.                                                    *)
(***************************************************************************)
MaxFrags == 4
MaxLinks == 3
MaxMappings == 3
MaxParts == 3

VARIABLES
    text,      \* the template text handed to parse
    frags,     \* number of fragments the template was put together from
    parsed,    \* outcome of parse(text): "none", "Ok", "Err" or "Panic"
    msg,       \* the Message at hand: parsed, or built from parts
    rest,      \* the remainder message_parser returned and parse discarded
    links,     \* every ListArgs link made so far, in the order made
    sel,       \* the SelectFormat being built with new() and map()
    mapCalls,  \* the map() calls made on sel, in the order made
    call,      \* the last operation called, with its arguments
    ret        \* what it returned (and the sink as it left it)

vars == <<text, frags, parsed, msg, rest, links, sel, mapCalls, call, ret>>

(***************************************************************************)
(* Option<T>: None is the empty sequence, Some(x) the one-element one.     *)
(***************************************************************************)
None == <<>>
Some(x) == <<x>>

\* `let x = v; e`, written Let([x \in {v} |-> e]): v is evaluated once.
Given(f) == CHOOSE v \in DOMAIN f : TRUE
Let(f) == f[Given(f)]

(***************************************************************************)
(* Strings.                                                                *)
(***************************************************************************)
CharAt(s, i) == SubSeq(s, i, i)
Take(s, n) == SubSeq(s, 1, n)
Drop(s, n) == SubSeq(s, n + 1, Len(s))
StartsWith(s, t) == Len(s) >= Len(t) /\ Take(s, Len(t)) = t

Digits == {"0", "1", "2", "3", "4", "5", "6", "7", "8", "9"}
Letters ==
    {"a", "b", "c", "d", "e", "f", "g", "h", "i", "j", "k", "l", "m",
     "n", "o", "p", "q", "r", "s", "t", "u", "v", "w", "x", "y", "z",
     "A", "B", "C", "D", "E", "F", "G", "H", "I", "J", "K", "L", "M",
     "N", "O", "P", "Q", "R", "S", "T", "U", "V", "W", "X", "Y", "Z"}
Spaces == {" "}

\* Length of the longest prefix of s whose characters all satisfy
\* (c \in chars) = member.
RECURSIVE span(_, _, _)
span(s, chars, member) ==
    IF s = "" \/ ((CharAt(s, 1) \in chars) # member)
    THEN 0
    ELSE 1 + span(Drop(s, 1), chars, member)

(***************************************************************************)
(* nom's IResult.  kind is "Ok", "Error" (Err::Error, the recoverable      *)
(* error alt and many1 continue after), "Incomplete" (Err::Incomplete,     *)
(* which the streaming tag! gives on a short input and which no combinator *)
(* recovers from) or "Panic" (the thread unwinds out of the parser).       *)
(***************************************************************************)
Ok(r, v) == [kind |-> "Ok", rest |-> r, val |-> v]
Error(s) == [kind |-> "Error", rest |-> s, val |-> <<>>]
Incomplete(s) == [kind |-> "Incomplete", rest |-> s, val |-> <<>>]
Panic(s) == [kind |-> "Panic", rest |-> s, val |-> <<>>]
IsOk(r) == r.kind = "Ok"
Fail(r) == [kind |-> r.kind, rest |-> r.rest, val |-> <<>>]

\* Sequencing (do_parse!'s >>, delimited, map, `?`): the next parser runs on
\* what the one before it returned, and a failure is returned as it is.
AndThen(f) == IF IsOk(Given(f)) THEN f[Given(f)] ELSE Fail(Given(f))

\* alt: the next alternative is tried after Err::Error only; Incomplete and
\* a panic are returned.
OrElse(r, next) == Let([x \in {r} |-> IF x.kind = "Error" THEN next ELSE x])

\* nom::bytes::complete::tag
tag(t, s) == IF StartsWith(s, t) THEN Ok(Drop(s, Len(t)), t) ELSE Error(s)

\* nom's tag! macro is nom::bytes::streaming::tag: an input that is a
\* proper prefix of the tag is Incomplete, not Error.
tag_streaming(t, s) ==
    IF StartsWith(s, t) THEN Ok(Drop(s, Len(t)), t)
    ELSE IF Len(s) < Len(t) /\ Take(t, Len(s)) = s THEN Incomplete(s)
    ELSE Error(s)

\* nom::bytes::complete::is_not: one or more characters not in chars.
is_not(chars, s) ==
    LET n == span(s, chars, FALSE)
    IN  IF n = 0 THEN Error(s) ELSE Ok(Drop(s, n), Take(s, n))

\* nom::character::complete::digit1 and alphanumeric1
digit1(s) ==
    LET n == span(s, Digits, TRUE)
    IN  IF n = 0 THEN Error(s) ELSE Ok(Drop(s, n), Take(s, n))

alphanumeric1(s) ==
    LET n == span(s, Digits \cup Letters, TRUE)
    IN  IF n = 0 THEN Error(s) ELSE Ok(Drop(s, n), Take(s, n))

\* nom::character::complete::multispace0 (and opt(multispace0)): never fails.
multispace0(s) ==
    LET n == span(s, Spaces, TRUE)
    IN  Ok(Drop(s, n), Take(s, n))

\* str::parse::<i64> of a run of digits.
DigitValue(c) ==
    CASE c = "0" -> 0 [] c = "1" -> 1 [] c = "2" -> 2 [] c = "3" -> 3
      [] c = "4" -> 4 [] c = "5" -> 5 [] c = "6" -> 6 [] c = "7" -> 7
      [] c = "8" -> 8 [] c = "9" -> 9

RECURSIVE parse_i64(_)
parse_i64(s) ==
    IF s = "" THEN 0
    ELSE 10 * parse_i64(Take(s, Len(s) - 1)) + DigitValue(CharAt(s, Len(s)))

(***************************************************************************)
(* The message tree.                                                       *)
(***************************************************************************)
Message_new(parts) == [parts |-> parts]

PlainText_new(t) == [type |-> "PlainText", text |-> t]
PlaceholderFormat_new == [type |-> "PlaceholderFormat"]
SimpleFormat_new(name) == [type |-> "SimpleFormat", variable_name |-> name]

SelectFormat_new(name, default) ==
    [type |-> "SelectFormat", variable_name |-> name,
     mappings |-> <<>>, default |-> default]

SelectFormat_map(fmt, value, message) ==
    [fmt EXCEPT !.mappings = Append(@, [value |-> value, message |-> message])]

PluralFormat_new(name, other) ==
    [type |-> "PluralFormat", variable_name |-> name, literals |-> <<>>,
     zero |-> None, one |-> None, two |-> None, few |-> None, many |-> None,
     other |-> other]

PluralFormat_literal(fmt, n, m) ==
    [fmt EXCEPT !.literals = Append(@, [value |-> n, message |-> m])]
PluralFormat_zero(fmt, m) == [fmt EXCEPT !.zero = Some(m)]
PluralFormat_one(fmt, m) == [fmt EXCEPT !.one = Some(m)]
PluralFormat_two(fmt, m) == [fmt EXCEPT !.two = Some(m)]
PluralFormat_few(fmt, m) == [fmt EXCEPT !.few = Some(m)]
PluralFormat_many(fmt, m) == [fmt EXCEPT !.many = Some(m)]

\* Vec::remove
Remove(seq, i) == SubSeq(seq, 1, i - 1) \o SubSeq(seq, i + 1, Len(seq))

(***************************************************************************)
(* icu/parse.rs                                                            *)
(***************************************************************************)
RECURSIVE message_parts_loop(_, _)
RECURSIVE plural_submessage_loop(_, _)
RECURSIVE select_submessage_loop(_, _)

mk_simple(name) == SimpleFormat_new(name)

variable_name(s) == is_not({",", "}"}, s)

simple_format(s) ==
    AndThen([r1 \in {tag("{", s)} |->
    AndThen([r2 \in {variable_name(r1.rest)} |->
    AndThen([r3 \in {tag("}", r2.rest)} |->
    Ok(r3.rest, mk_simple(r2.val))])])])

message_parts(s) == message_parts_loop(s, <<>>)

message_parser(s) ==
    AndThen([r \in {message_parts(s)} |-> Ok(r.rest, Message_new(r.val))])

\* delimited(tag("{"), map_parser(is_not("}"), message_parser), tag("}")):
\* map_parser runs message_parser on the text is_not took and keeps only
\* its value; what message_parser left of that text is dropped.
submessage(s) ==
    AndThen([r1 \in {tag("{", s)} |->
    AndThen([r2 \in {is_not({"}"}, r1.rest)} |->
    AndThen([m \in {message_parser(r2.val)} |->
    AndThen([r3 \in {tag("}", r2.rest)} |->
    Ok(r3.rest, m.val)])])])])

PluralPart(kind, n, m) == [kind |-> kind, value |-> n, message |-> m]

plural_literal(s) ==
    AndThen([r1 \in {tag("=", s)} |->
    AndThen([r2 \in {digit1(r1.rest)} |->
    AndThen([r3 \in {multispace0(r2.rest)} |->
    AndThen([r4 \in {submessage(r3.rest)} |->
    AndThen([r5 \in {multispace0(r4.rest)} |->
    Ok(r5.rest, PluralPart("Literal", parse_i64(r2.val), r4.val))])])])])])

plural_one(s) ==
    AndThen([r1 \in {multispace0(s)} |->
    AndThen([r2 \in {tag_streaming("one", r1.rest)} |->
    AndThen([r3 \in {multispace0(r2.rest)} |->
    AndThen([r4 \in {submessage(r3.rest)} |->
    AndThen([r5 \in {multispace0(r4.rest)} |->
    Ok(r5.rest, PluralPart("One", 0, r4.val))])])])])])

plural_other(s) ==
    AndThen([r1 \in {multispace0(s)} |->
    AndThen([r2 \in {tag_streaming("other", r1.rest)} |->
    AndThen([r3 \in {multispace0(r2.rest)} |->
    AndThen([r4 \in {submessage(r3.rest)} |->
    AndThen([r5 \in {multispace0(r4.rest)} |->
    Ok(r5.rest, PluralPart("Other", 0, r4.val))])])])])])

\* Iterator::position over the parts: the first Other, 0 for None.
plural_other_part_pos(parts) ==
    IF \E i \in 1..Len(parts) : parts[i].kind = "Other"
    THEN CHOOSE i \in 1..Len(parts) :
            /\ parts[i].kind = "Other"
            /\ \A j \in 1..(i - 1) : parts[j].kind # "Other"
    ELSE 0

\* One turn of the loop `for part in parts { match part { ... } }`.
plural_add_part(fmt, part) ==
    CASE part.kind = "Zero" -> PluralFormat_zero(fmt, part.message)
      [] part.kind = "One" -> PluralFormat_one(fmt, part.message)
      [] part.kind = "Two" -> PluralFormat_two(fmt, part.message)
      [] part.kind = "Few" -> PluralFormat_few(fmt, part.message)
      [] part.kind = "Many" -> PluralFormat_many(fmt, part.message)
      [] part.kind = "Literal" -> PluralFormat_literal(fmt, part.value, part.message)
      [] part.kind = "Other" -> fmt

\* The loop as it would be if the Literal arm did nothing.
RECURSIVE plural_add_parts_no_literal(_, _)
plural_add_parts_no_literal(fmt, parts) ==
    IF parts = <<>> THEN fmt
    ELSE plural_add_parts_no_literal(
            IF Head(parts).kind = "Literal" THEN fmt
            ELSE plural_add_part(fmt, Head(parts)),
            Tail(parts))

RECURSIVE plural_add_parts(_, _)
plural_add_parts(fmt, parts) ==
    IF parts = <<>> THEN fmt
    ELSE plural_add_parts(plural_add_part(fmt, Head(parts)), Tail(parts))

\* plural_from_parts as it would be if a list without Other took its first
\* branch for the default.
plural_from_parts_first(var_name, parts) ==
    Let([other_part_pos \in {IF plural_other_part_pos(parts) # 0 THEN plural_other_part_pos(parts)
        ELSE IF parts # <<>> THEN 1 ELSE 0} |->
            IF other_part_pos # 0
            THEN [panic |-> FALSE,
                  fmt |-> plural_add_parts(
                              PluralFormat_new(var_name, parts[other_part_pos].message),
                              Remove(parts, other_part_pos))]
            ELSE [panic |-> TRUE, fmt |-> None]])

\* The result is [panic |-> TRUE] when the function panics, else the format.
plural_from_parts(var_name, parts) ==
    Let([other_part_pos \in {plural_other_part_pos(parts)} |->
        IF other_part_pos # 0
        THEN [panic |-> FALSE,
              fmt |-> plural_add_parts(
                          PluralFormat_new(var_name, parts[other_part_pos].message),
                          Remove(parts, other_part_pos))]
        ELSE [panic |-> TRUE, fmt |-> None]])

\* alt!(plural_literal | plural_one | plural_other)
plural_part(s) ==
    OrElse(plural_literal(s), OrElse(plural_one(s), plural_other(s)))

\* many1!: the first application must succeed; afterwards the loop ends at
\* the first Err::Error and keeps what was collected, any other failure is
\* returned, and a success that consumed nothing is an error.
plural_submessage_loop(s, acc) ==
    Let([r \in {plural_part(s)} |->
        IF r.kind = "Error"
        THEN IF acc = <<>> THEN Error(s) ELSE Ok(s, acc)
        ELSE IF ~IsOk(r) THEN Fail(r)
        ELSE IF acc # <<>> /\ r.rest = s THEN Error(s)
        ELSE plural_submessage_loop(r.rest, Append(acc, r.val))])

plural_submessage(s) == plural_submessage_loop(s, <<>>)

\* The last line of plural_inner and select_inner: the format boxed, or the
\* panic of from_parts on its way out.
Built(s, f) == IF f.panic THEN Panic(s) ELSE Ok(s, f.fmt)

plural_inner(s) ==
    AndThen([r1 \in {variable_name(s)} |->
    AndThen([r2 \in {tag(",", r1.rest)} |->
    AndThen([r3 \in {multispace0(r2.rest)} |->
    AndThen([r4 \in {tag("plural", r3.rest)} |->
    AndThen([r5 \in {multispace0(r4.rest)} |->
    AndThen([r6 \in {tag(",", r5.rest)} |->
    AndThen([r7 \in {multispace0(r6.rest)} |->
    AndThen([r8 \in {plural_submessage(r7.rest)} |->
    Let([f \in {plural_from_parts(r1.val, r8.val)} |-> Built(r8.rest, f)])])])])])])])])])

plural_format(s) ==
    AndThen([r1 \in {tag("{", s)} |->
    AndThen([r2 \in {plural_inner(r1.rest)} |->
    AndThen([r3 \in {tag("}", r2.rest)} |->
    Ok(r3.rest, r2.val)])])])

select_match(s) ==
    AndThen([r1 \in {multispace0(s)} |->
    AndThen([r2 \in {alphanumeric1(r1.rest)} |->
    AndThen([r3 \in {multispace0(r2.rest)} |->
    AndThen([r4 \in {submessage(r3.rest)} |->
    AndThen([r5 \in {multispace0(r4.rest)} |->
    Ok(r5.rest, [name |-> r2.val, message |-> r4.val])])])])])])

\* many1(select_match)
select_submessage_loop(s, acc) ==
    Let([r \in {select_match(s)} |->
        IF r.kind = "Error"
        THEN IF acc = <<>> THEN Error(s) ELSE Ok(s, acc)
        ELSE IF ~IsOk(r) THEN Fail(r)
        ELSE IF acc # <<>> /\ r.rest = s THEN Error(s)
        ELSE select_submessage_loop(r.rest, Append(acc, r.val))])

select_submessage(s) == select_submessage_loop(s, <<>>)

\* Iterator::position(|(n,_)| *n == "other"), 0 for None.
select_other_part_pos(parts) ==
    IF \E i \in 1..Len(parts) : parts[i].name = "other"
    THEN CHOOSE i \in 1..Len(parts) :
            /\ parts[i].name = "other"
            /\ \A j \in 1..(i - 1) : parts[j].name # "other"
    ELSE 0

\* The loop `for (s,p) in parts { fmt.map(s, p); }`.
RECURSIVE select_map_parts(_, _)
select_map_parts(fmt, parts) ==
    IF parts = <<>> THEN fmt
    ELSE select_map_parts(
            SelectFormat_map(fmt, Head(parts).name, Head(parts).message),
            Tail(parts))

\* select_from_parts as it would be if the last `other` branch were the
\* default.
select_from_parts_last(var_name, parts) ==
    Let([other_part_pos \in {IF \E i \in 1..Len(parts) : parts[i].name = "other"
                             THEN CHOOSE i \in 1..Len(parts) :
                                    /\ parts[i].name = "other"
                                    /\ \A j \in (i + 1)..Len(parts) :
                                            parts[j].name # "other"
                             ELSE 0} |->
        IF other_part_pos # 0
        THEN [panic |-> FALSE,
              fmt |-> select_map_parts(
                          SelectFormat_new(var_name, parts[other_part_pos].message),
                          Remove(parts, other_part_pos))]
        ELSE [panic |-> TRUE, fmt |-> None]])

select_from_parts(var_name, parts) ==
    Let([other_part_pos \in {select_other_part_pos(parts)} |->
        IF other_part_pos # 0
        THEN [panic |-> FALSE,
              fmt |-> select_map_parts(
                          SelectFormat_new(var_name, parts[other_part_pos].message),
                          Remove(parts, other_part_pos))]
        ELSE [panic |-> TRUE, fmt |-> None]])

select_inner(s) ==
    AndThen([r1 \in {variable_name(s)} |->
    AndThen([r2 \in {tag(",", r1.rest)} |->
    AndThen([r3 \in {multispace0(r2.rest)} |->
    AndThen([r4 \in {tag("select", r3.rest)} |->
    AndThen([r5 \in {multispace0(r4.rest)} |->
    AndThen([r6 \in {tag(",", r5.rest)} |->
    AndThen([r7 \in {multispace0(r6.rest)} |->
    AndThen([r8 \in {select_submessage(r7.rest)} |->
    Let([f \in {select_from_parts(r1.val, r8.val)} |-> Built(r8.rest, f)])])])])])])])])])

select_format(s) ==
    AndThen([r1 \in {tag("{", s)} |->
    AndThen([r2 \in {select_inner(r1.rest)} |->
    AndThen([r3 \in {tag("}", r2.rest)} |->
    Ok(r3.rest, r2.val)])])])

plain_text(s) ==
    AndThen([r \in {is_not({"{", "#"}, s)} |-> Ok(r.rest, PlainText_new(r.val))])

placeholder(s) ==
    AndThen([r \in {tag("#", s)} |-> Ok(r.rest, PlaceholderFormat_new)])

\* alt((placeholder, simple_format, plural_format, select_format, plain_text))
message_part(s) ==
    OrElse(placeholder(s),
    OrElse(simple_format(s),
    OrElse(plural_format(s),
    OrElse(select_format(s),
           plain_text(s)))))

\* many1(alt(...))
message_parts_loop(s, acc) ==
    Let([r \in {message_part(s)} |->
        IF r.kind = "Error"
        THEN IF acc = <<>> THEN Error(s) ELSE Ok(s, acc)
        ELSE IF ~IsOk(r) THEN Fail(r)
        ELSE IF acc # <<>> /\ r.rest = s THEN Error(s)
        ELSE message_parts_loop(r.rest, Append(acc, r.val))])

\* parse: Err(_) => Err(ParseError::NotImplemented), Ok((_, m)) => Ok(m);
\* a panic inside the parser leaves parse by unwinding.  `rest` is the
\* remainder parse binds to `_`.
parse(message) ==
    Let([r \in {message_parser(message)} |->
        CASE r.kind = "Ok" -> [kind |-> "Ok", msg |-> r.val, rest |-> r.rest]
          [] r.kind = "Panic" ->
                [kind |-> "Panic", msg |-> Message_new(<<>>), rest |-> r.rest]
          [] OTHER ->
                [kind |-> "Err", msg |-> Message_new(<<>>), rest |-> r.rest]])

(***************************************************************************)
(* Value (string or integer) and its Display.                              *)
(***************************************************************************)
Value_Str(s) == [kind |-> "Str", s |-> s, n |-> 0]
Value_Number(n) == [kind |-> "Number", s |-> "", n |-> n]

DigitChar(d) ==
    CASE d = 0 -> "0" [] d = 1 -> "1" [] d = 2 -> "2" [] d = 3 -> "3"
      [] d = 4 -> "4" [] d = 5 -> "5" [] d = 6 -> "6" [] d = 7 -> "7"
      [] d = 8 -> "8" [] d = 9 -> "9"

RECURSIVE i64_to_string(_)
i64_to_string(n) ==
    IF n < 0 THEN "-" \o i64_to_string(0 - n)
    ELSE IF n < 10 THEN DigitChar(n)
    ELSE i64_to_string(n \div 10) \o DigitChar(n % 10)

Value_fmt(v) == IF v.kind = "Str" THEN v.s ELSE i64_to_string(v.n)

(***************************************************************************)
(* args.rs.  A ListArgs is a link [name, value, prev]; `links` holds the   *)
(* links made so far and a reference to a link is its index.  The handle 0 *)
(* is EmptyArgs.                                                           *)
(***************************************************************************)
EmptyArgs == 0

\* arg(name, value): a link with no prev.
arg(ls, name, value) ==
    Append(ls, [name |-> name, value |-> value, prev |-> None])

\* ListArgs::arg as it would be if it updated a link of the same name in
\* place (as an insert into a map does) before linking the new one.
ListArgs_arg_in_place(ls, self, name, value) ==
    Append(IF ls[self].name = name THEN [ls EXCEPT ![self].value = value] ELSE ls,
           [name |-> name, value |-> value, prev |-> Some(self)])

\* ListArgs::arg(&self, name, value): a new link whose prev is self.
ListArgs_arg(ls, self, name, value) ==
    Append(ls, [name |-> name, value |-> value, prev |-> Some(self)])

\* ListArgs::get as it would be if it asked prev first: the oldest link of
\* a name wins.
RECURSIVE ListArgs_get_oldest(_, _, _)
ListArgs_get_oldest(ls, self, name) ==
    LET older == IF ls[self].prev # None
                 THEN ListArgs_get_oldest(ls, ls[self].prev[1], name)
                 ELSE None
    IN  IF older # None THEN older
        ELSE IF ls[self].name = name THEN Some(ls[self].value)
        ELSE None

RECURSIVE ListArgs_get(_, _, _)
ListArgs_get(ls, self, name) ==
    IF ls[self].name = name THEN Some(ls[self].value)
    ELSE IF ls[self].prev # None THEN ListArgs_get(ls, ls[self].prev[1], name)
    ELSE None

EmptyArgs_get(name) == None

\* Args::get on a handle.
Args_get(ls, args, name) ==
    IF args = EmptyArgs THEN EmptyArgs_get(name) ELSE ListArgs_get(ls, args, name)

(***************************************************************************)
(* Context carries the number a `#` inside a plural branch stands for.     *)
(***************************************************************************)
Context_new == [placeholder_value |-> None]
Context_with_placeholder(ctx, n) == [ctx EXCEPT !.placeholder_value = Some(n)]

(***************************************************************************)
(* icu/ast: the format nodes.  apply_format returns the sink as it leaves  *)
(* it and Ok or Err; the sink is a String, whose write_str cannot fail.    *)
(***************************************************************************)
RECURSIVE MessagePart_apply_format(_, _, _, _, _)
RECURSIVE write_parts(_, _, _, _, _)

FmtOk(stream_) == [stream |-> stream_, res |-> "Ok"]
FmtErr(stream_) == [stream |-> stream_, res |-> "Err"]

\* Iterator::find over the mappings: the first whose value is `value`.
RECURSIVE find_mapping(_, _)
find_mapping(mappings, value) ==
    IF mappings = <<>> THEN None
    ELSE IF Head(mappings).value = value THEN Some(Head(mappings))
    ELSE find_mapping(Tail(mappings), value)

\* lookup_message as it would be if the last mapping of a value won.
SelectFormat_lookup_message_last(fmt, value) ==
    LET hits == {i \in 1..Len(fmt.mappings) : fmt.mappings[i].value = value}
    IN  IF hits = {} THEN fmt.default
        ELSE fmt.mappings[CHOOSE i \in hits : \A j \in hits : j <= i].message

SelectFormat_lookup_message(fmt, value) ==
    LET found == find_mapping(fmt.mappings, value)
    IN  IF found = None THEN fmt.default ELSE found[1].message

PlainText_apply_format(self, ctx, stream_, ls, args) ==
    FmtOk(stream_ \o self.text)

PlaceholderFormat_apply_format(self, ctx, stream_, ls, args) ==
    IF ctx.placeholder_value = None THEN FmtErr(stream_)
    ELSE FmtOk(stream_ \o i64_to_string(ctx.placeholder_value[1]))

\* apply_format as it would be if a missing argument were written as
\* nothing, successfully.
SimpleFormat_apply_format_silent(self, ctx, stream_, ls, args) ==
    LET a == Args_get(ls, args, self.variable_name)
    IN  IF a # None THEN FmtOk(stream_ \o Value_fmt(a[1])) ELSE FmtOk(stream_)

SimpleFormat_apply_format(self, ctx, stream_, ls, args) ==
    LET a == Args_get(ls, args, self.variable_name)
    IN  IF a # None THEN FmtOk(stream_ \o Value_fmt(a[1])) ELSE FmtErr(stream_)

\* apply_format as it would be if a missing or non-string argument fell
\* back to the default message.
SelectFormat_apply_format_or_default(self, ctx, stream_, ls, args) ==
    LET a == Args_get(ls, args, self.variable_name)
        message == IF a # None /\ a[1].kind = "Str"
                   THEN SelectFormat_lookup_message(self, a[1].s)
                   ELSE self.default
    IN  Let([r \in {write_parts(message.parts, ctx, stream_, ls, args)} |-> [stream |-> r.stream, res |-> r.res]])

SelectFormat_apply_format(self, ctx, stream_, ls, args) ==
    LET a == Args_get(ls, args, self.variable_name)
    IN  IF a # None /\ a[1].kind = "Str"
        THEN Let([r \in {write_parts(SelectFormat_lookup_message(self, a[1].s).parts,
                             ctx, stream_, ls, args)} |-> [stream |-> r.stream, res |-> r.res]])
        ELSE FmtErr(stream_)

\* The sub-Message a number resolves to: a literal of that value, else the
\* category (`one` for 1, `other` for the rest), else the default.
RECURSIVE find_literal(_, _)
find_literal(literals, n) ==
    IF literals = <<>> THEN None
    ELSE IF Head(literals).value = n THEN Some(Head(literals).message)
    ELSE find_literal(Tail(literals), n)

PluralFormat_lookup_message(fmt, n) ==
    LET lit == find_literal(fmt.literals, n)
    IN  IF lit # None THEN lit[1]
        ELSE IF n = 1 /\ fmt.one # None THEN fmt.one[1]
        ELSE fmt.other

PluralFormat_apply_format(self, ctx, stream_, ls, args) ==
    LET a == Args_get(ls, args, self.variable_name)
    IN  IF a # None /\ a[1].kind = "Number"
        THEN Let([r \in {write_parts(PluralFormat_lookup_message(self, a[1].n).parts,
                             Context_with_placeholder(ctx, a[1].n),
                             stream_, ls, args)} |-> [stream |-> r.stream, res |-> r.res]])
        ELSE FmtErr(stream_)

\* The call through the MessagePart trait object.
MessagePart_apply_format(part, ctx, stream_, ls, args) ==
    CASE part.type = "PlainText" ->
            PlainText_apply_format(part, ctx, stream_, ls, args)
      [] part.type = "PlaceholderFormat" ->
            PlaceholderFormat_apply_format(part, ctx, stream_, ls, args)
      [] part.type = "SimpleFormat" ->
            SimpleFormat_apply_format(part, ctx, stream_, ls, args)
      [] part.type = "SelectFormat" ->
            SelectFormat_apply_format(part, ctx, stream_, ls, args)
      [] part.type = "PluralFormat" ->
            PluralFormat_apply_format(part, ctx, stream_, ls, args)

\* The loop as it would be without try!: a failing part is skipped and the
\* parts after it are applied.
RECURSIVE write_parts_no_try(_, _, _, _, _)
write_parts_no_try(parts, ctx, stream_, ls, args) ==
    IF parts = <<>> THEN [stream |-> stream_, res |-> "Ok", applied |-> 0]
    ELSE Let([r \in {MessagePart_apply_format(Head(parts), ctx, stream_, ls, args)} |->
                Let([t \in {write_parts_no_try(Tail(parts), ctx, r.stream, ls, args)} |->
                        [stream |-> t.stream,
                         res |-> IF r.res = "Err" THEN "Err" ELSE t.res,
                         applied |-> t.applied + 1]])])

(***************************************************************************)
(* message.rs.  write_parts is the loop                                    *)
(*     for part in &self.parts { try!(part.apply_format(..)); }  Ok(())    *)
(* `applied` counts the parts apply_format was called on.                  *)
(***************************************************************************)
write_parts(parts, ctx, stream_, ls, args) ==
    IF parts = <<>> THEN [stream |-> stream_, res |-> "Ok", applied |-> 0]
    ELSE Let([r \in {MessagePart_apply_format(Head(parts), ctx, stream_, ls, args)} |->
                IF r.res = "Err"
                THEN [stream |-> r.stream, res |-> "Err", applied |-> 1]
                ELSE [write_parts(Tail(parts), ctx, r.stream, ls, args)
                        EXCEPT !.applied = @ + 1]])

Message_write_message(self, stream_, ls, args) ==
    write_parts(self.parts, Context_new, stream_, ls, args)

\* format_message as it would be if a failed write gave the empty string.
Message_format_message_or_empty(self, ls, args) ==
    Let([r \in {write_parts(self.parts, Context_new, "", ls, args)} |-> IF r.res = "Ok" THEN r.stream ELSE ""])

\* let mut output = String::new(); let _ = self.write_message(..); output
Message_format_message(self, ls, args) ==
    Message_write_message(self, "", ls, args).stream

(***************************************************************************)
(* The inputs: the fragments a template is put together from, the values   *)
(* and chains handed to the calls.                                         *)
(***************************************************************************)
Fragments ==
    {"hi ", "#", "{n}", "{n", "}",
     "{n,plural, ", "=5 {A}", "one {B}", "other {# C}", "on",
     "{g, select, ", "m {D}", "other {x{n}}"}

\* The branches of a plural or select body.
BranchFragments == {"=5 {A}", "one {B} ", "other {C} ", "other {D}", "m {E} ", "}"}

\* Pieces of a branch body: `{Hello {name}}` is four of them.
BodyFragments == {"{", "}", "Hello ", "{name}", "#"}

SeqsUpTo(S, n) == UNION {[1..k -> S] : k \in 0..n}

ArgNames == {"x", "y"}
GetNames == {"x", "y", "z"}
ArgValues == {Value_Str("a"), Value_Number(1), Value_Number(2)}

\* The sub-Messages of a select built by hand.
BranchMessages ==
    {Message_new(<<PlainText_new("A")>>), Message_new(<<PlainText_new("B")>>)}
SelectValues == {"m", "f"}
LookupValues == {"m", "f", "q"}
Sinks == {"", ">"}

\* The argument chains handed to a formatting call, one link a name at most
\* and in either order: the links of the chain and the handle of its newest
\* link (EmptyArgs for no link).
FormatArgNames == {"x", "y"}
FormatArgValues == {Value_Str("m"), Value_Str("q"), Value_Number(1)}
RECURSIVE BuildChain(_)
BuildChain(pairs) ==
    IF pairs = <<>> THEN <<>>
    ELSE LET n == Len(pairs)
             front == BuildChain(SubSeq(pairs, 1, n - 1))
         IN  IF n = 1 THEN arg(front, pairs[n][1], pairs[n][2])
             ELSE ListArgs_arg(front, n - 1, pairs[n][1], pairs[n][2])
ArgsPool ==
    {[links |-> BuildChain(p), self |-> Len(p)] :
        p \in {q \in SeqsUpTo(FormatArgNames \X FormatArgValues,
                              Cardinality(FormatArgNames)) :
                  \A i, j \in 1..Len(q) : i # j => q[i][1] # q[j][1]}}

\* The parts a Message is built from by hand.
PartPool ==
    {PlainText_new("a"),
     SimpleFormat_new("x"),
     SimpleFormat_new("y"),
     PlaceholderFormat_new,
     SelectFormat_map(
        SelectFormat_new("x", Message_new(<<PlainText_new("d")>>)),
        "m", Message_new(<<PlainText_new("M"), SimpleFormat_new("y")>>)),
     PluralFormat_one(
        PluralFormat_new("y",
            Message_new(<<PlaceholderFormat_new, PlainText_new("s"),
                          SimpleFormat_new("x")>>)),
        Message_new(<<PlainText_new("one")>>))}

\* The plural template {v, plural, =N {A} one {B} other {C}}.
PluralTemplate(n, a, b, c) ==
    "{v, plural, =" \o i64_to_string(n) \o " {" \o a \o "} one {" \o b
        \o "} other {" \o c \o "}}"
PluralLiterals == {1, 5, 54}
PluralCounts == {0, 1, 5, 7, 54}
LiteralBodies == {"perfect number of days", "# exactly"}
OneBodies == {"1 day", "# day"}
OtherBodies == {"# days", "days: #, #"}

NoCall == [op |-> "none"]

Init ==
    /\ text = ""
    /\ frags = 0
    /\ parsed = "none"
    /\ msg = Message_new(<<>>)
    /\ rest = ""
    /\ links = <<>>
    /\ sel = None
    /\ mapCalls = <<>>
    /\ call = NoCall
    /\ ret = None

(***************************************************************************)
(* Parsing a template.                                                     *)
(***************************************************************************)
Type(f) ==
    /\ frags < MaxFrags
    /\ parsed = "none"
    /\ call = NoCall
    /\ text' = text \o f
    /\ frags' = frags + 1
    /\ UNCHANGED <<parsed, msg, rest, links, sel, mapCalls, call, ret>>

Parse ==
    /\ parsed = "none"
    /\ call = NoCall
    /\ \E r \in {parse(text)} :
           /\ parsed' = r.kind
           /\ msg' = r.msg
           /\ rest' = r.rest
    /\ UNCHANGED <<text, frags, links, sel, mapCalls, call, ret>>

NextParse ==
    \/ \E f \in Fragments : Type(f)
    \/ Parse

SpecParse == Init /\ [][NextParse]_vars

\* C1: parse never half-parses: it returns Ok only when the grammar consumed
\* the whole template, so a template with text left over (valid parts
\* followed by an unterminated construct) is a ParseError.
C1_NoHalfParse == parsed = "Ok" => rest = ""

(***************************************************************************)
(* Building a plural or select node from parsed branches: the last two     *)
(* steps of plural_inner and select_inner, on the branches typed so far.   *)
(***************************************************************************)
PluralFromParts(var_name) ==
    /\ call = NoCall
    /\ \E parts \in {plural_submessage(text)} :
           /\ IsOk(parts)
           /\ call' = [op |-> "plural_from_parts", parts |-> parts.val]
           /\ ret' = plural_from_parts(var_name, parts.val)
    /\ UNCHANGED <<text, frags, parsed, msg, rest, links, sel, mapCalls>>

SelectFromParts(var_name) ==
    /\ call = NoCall
    /\ \E parts \in {select_submessage(text)} :
           /\ IsOk(parts)
           /\ call' = [op |-> "select_from_parts", parts |-> parts.val]
           /\ ret' = select_from_parts(var_name, parts.val)
    /\ UNCHANGED <<text, frags, parsed, msg, rest, links, sel, mapCalls>>

NextBuild ==
    \/ \E f \in BranchFragments : Type(f)
    \/ PluralFromParts("n")
    \/ SelectFromParts("g")

SpecBuild == Init /\ [][NextBuild]_vars

\* C5: building a plural or select node from branches none of which is
\* `other` panics, whatever the branches are: no format value is produced.
C5_NoOtherPanics ==
    /\ (/\ call.op = "plural_from_parts"
        /\ \A i \in 1..Len(call.parts) : call.parts[i].kind # "Other")
            => (ret.panic /\ ret.fmt = None)
    /\ (/\ call.op = "select_from_parts"
        /\ \A i \in 1..Len(call.parts) : call.parts[i].name # "other")
            => (ret.panic /\ ret.fmt = None)

\* plural_from_parts given a literal and a `one` branch and no `other`.
C5_Witness ==
    /\ call.op = "plural_from_parts"
    /\ \E i, j \in 1..Len(call.parts) :
          call.parts[i].kind = "Literal" /\ call.parts[j].kind = "One"
    /\ \A i \in 1..Len(call.parts) : call.parts[i].kind # "Other"
    /\ ret.panic

\* C12: when the parsed select branches hold an `other`, select_from_parts
\* makes the first `other` the default and keeps every remaining branch as
\* a mapping, in template order; a later `other` is thus a mapping keyed
\* "other", and the first of them is the message looked up for the value
\* "other".
C12_FirstOtherIsDefault ==
    (/\ call.op = "select_from_parts"
     /\ \E i \in 1..Len(call.parts) : call.parts[i].name = "other")
        => /\ ~ret.panic
           /\ \E p \in 1..Len(call.parts) :
                /\ call.parts[p].name = "other"
                /\ \A j \in 1..(p - 1) : call.parts[j].name # "other"
                /\ ret.fmt.default = call.parts[p].message
                /\ Len(ret.fmt.mappings) = Len(call.parts) - 1
                /\ \A i \in 1..(p - 1) :
                      ret.fmt.mappings[i] =
                          [value |-> call.parts[i].name,
                           message |-> call.parts[i].message]
                /\ \A i \in (p + 1)..Len(call.parts) :
                      ret.fmt.mappings[i - 1] =
                          [value |-> call.parts[i].name,
                           message |-> call.parts[i].message]
                /\ \A q \in (p + 1)..Len(call.parts) :
                      (/\ call.parts[q].name = "other"
                       /\ \A j \in (p + 1)..(q - 1) :
                              call.parts[j].name # "other")
                          => SelectFormat_lookup_message(ret.fmt, "other")
                                = call.parts[q].message

\* select_from_parts given two `other` branches of different bodies with a
\* branch of another name before them: the second `other` is what the value
\* "other" selects, not the default.
C12_Witness ==
    /\ call.op = "select_from_parts"
    /\ Len(call.parts) = 3
    /\ call.parts[1].name # "other"
    /\ call.parts[2].name = "other"
    /\ call.parts[3].name = "other"
    /\ call.parts[2].message # call.parts[3].message
    /\ ~ret.panic
    /\ ret.fmt.default = call.parts[2].message
    /\ SelectFormat_lookup_message(ret.fmt, "other") = call.parts[3].message

(***************************************************************************)
(* Parsing the body of one branch: submessage on a text typed from braces, *)
(* plain text, a simple format and a placeholder.                          *)
(***************************************************************************)
Submessage ==
    /\ call = NoCall
    /\ \E r \in {submessage(text)} :
           /\ call' = [op |-> "submessage", s |-> text]
           /\ ret' = r
    /\ UNCHANGED <<text, frags, parsed, msg, rest, links, sel, mapCalls>>

NextSub ==
    \/ \E f \in BodyFragments : Type(f)
    \/ Submessage

SpecSub == Init /\ [][NextSub]_vars

\* The index in s of the brace that closes the brace opened before index i,
\* depth braces being open at i; 0 when there is none.
RECURSIVE closing_brace(_, _, _)
closing_brace(s, i, depth) ==
    IF i > Len(s) THEN 0
    ELSE IF CharAt(s, i) = "{" THEN closing_brace(s, i + 1, depth + 1)
    ELSE IF CharAt(s, i) # "}" THEN closing_brace(s, i + 1, depth)
    ELSE IF depth = 1 THEN i
    ELSE closing_brace(s, i + 1, depth - 1)

\* The index of the brace matching the brace s begins with, 0 when s does
\* not begin with a brace or the brace is never closed.
MatchingBrace(s) ==
    IF StartsWith(s, "{") THEN closing_brace(s, 2, 1) ELSE 0

\* C11: the body of a branch is the text between the branch's matching
\* (nesting-aware) braces and is parsed with the full message grammar: when
\* that text is a whole message, submessage yields exactly the Message of
\* all its parts and leaves what follows the matching brace.
C11_BodyParsedFully ==
    (call.op = "submessage" /\ MatchingBrace(call.s) # 0) =>
        \A body \in {SubSeq(call.s, 2, MatchingBrace(call.s) - 1)} :
            \A m \in {message_parser(body)} :
                (IsOk(m) /\ m.rest = "") =>
                    /\ IsOk(ret)
                    /\ ret.val = m.val
                    /\ ret.rest = Drop(call.s, MatchingBrace(call.s))

(***************************************************************************)
(* Building argument chains and looking names up in them.                  *)
(***************************************************************************)
Arg(name, value) ==
    /\ Len(links) < MaxLinks
    /\ links' = arg(links, name, value)
    /\ call' = [op |-> "arg", name |-> name, value |-> value]
    /\ ret' = Len(links')
    /\ UNCHANGED <<text, frags, parsed, msg, rest, sel, mapCalls>>

Extend(self, name, value) ==
    /\ Len(links) < MaxLinks
    /\ links' = ListArgs_arg(links, self, name, value)
    /\ call' = [op |-> "ListArgs::arg", self |-> self, name |-> name,
                value |-> value]
    /\ ret' = Len(links')
    /\ UNCHANGED <<text, frags, parsed, msg, rest, sel, mapCalls>>

Get(self, name) ==
    /\ call' = [op |-> "get", self |-> self, name |-> name]
    /\ ret' = ListArgs_get(links, self, name)
    /\ UNCHANGED <<text, frags, parsed, msg, rest, links, sel, mapCalls>>

NextArgs ==
    \/ \E name \in ArgNames, value \in ArgValues : Arg(name, value)
    \/ \E self \in 1..Len(links), name \in ArgNames, value \in ArgValues :
            Extend(self, name, value)
    \/ \E self \in 1..Len(links), name \in GetNames : Get(self, name)

SpecArgs == Init /\ [][NextArgs]_vars

\* The links of the chain that starts at self.
RECURSIVE ChainOf(_, _)
ChainOf(ls, self) ==
    {self} \cup (IF ls[self].prev = None THEN {} ELSE ChainOf(ls, ls[self].prev[1]))

Max(S) == CHOOSE i \in S : \A j \in S : j <= i
Min(S) == CHOOSE i \in S : \A j \in S : i <= j

\* The value of the link of that name added last to the chain, if any.
NewestNamed(ls, self, name) ==
    LET named == {j \in ChainOf(ls, self) : ls[j].name = name}
    IN  IF named = {} THEN None ELSE Some(ls[Max(named)].value)

\* What the chain behind an Args handle binds a name to.
Bound(ls, args, name) ==
    IF args = EmptyArgs THEN None ELSE NewestNamed(ls, args, name)

\* C2: get(name) on a chain returns the value of the most recently added
\* link of the chain whose name is `name`, and None exactly when the chain
\* has no link of that name.
C2_GetNewestWins ==
    call.op = "get" =>
        /\ ret = NewestNamed(links, call.self, call.name)
        /\ (ret = None) =
              (\A j \in ChainOf(links, call.self) : links[j].name # call.name)

\* A get that found a name two links of the chain carry with different
\* values, and returned the newer one.
C2_Witness ==
    /\ call.op = "get"
    /\ \E i, j \in ChainOf(links, call.self) :
          /\ i < j
          /\ links[i].name = call.name
          /\ links[j].name = call.name
          /\ links[i].value # links[j].value
          /\ ret = Some(links[j].value)

\* C10: extending a chain with .arg(name, value) leaves every existing link
\* as it was and returns a new link whose prev is the chain extended; get on
\* every chain that existed before returns what it returned before.
C10_ExtendLeavesLinks ==
    [][/\ Len(links') >= Len(links)
       /\ \A i \in 1..Len(links) :
             /\ links'[i] = links[i]
             /\ \A name \in GetNames :
                   ListArgs_get(links', i, name) = ListArgs_get(links, i, name)
       /\ call'.op = "ListArgs::arg" =>
             /\ ret' = Len(links) + 1
             /\ Len(links') = Len(links) + 1
             /\ links'[ret'] = [name |-> call'.name, value |-> call'.value,
                                prev |-> Some(call'.self)]]_vars

\* Two extensions of the same chain, the second of a name the chain has.
C10_Witness ==
    /\ call.op = "ListArgs::arg"
    /\ links[call.self].name = call.name
    /\ links[call.self].value # call.value
    /\ \E i \in 1..(Len(links) - 1) : links[i].prev = Some(call.self)

(***************************************************************************)
(* Building a SelectFormat by hand, then one call on it.  lookup_message   *)
(* and apply_format take &self and leave the format as it is, so what a    *)
(* call returns does not depend on the calls made before it.               *)
(***************************************************************************)
Building == call.op \in {"none", "SelectFormat::new", "map"}

SelectNew(name, default) ==
    /\ Building
    /\ sel' = Some(SelectFormat_new(name, default))
    /\ mapCalls' = <<>>
    /\ call' = [op |-> "SelectFormat::new"]
    /\ ret' = None
    /\ UNCHANGED <<text, frags, parsed, msg, rest, links>>

SelectMap(value, message) ==
    /\ Building
    /\ sel # None
    /\ Len(mapCalls) < MaxMappings
    /\ sel' = Some(SelectFormat_map(sel[1], value, message))
    /\ mapCalls' = Append(mapCalls, [value |-> value, message |-> message])
    /\ call' = [op |-> "map"]
    /\ ret' = None
    /\ UNCHANGED <<text, frags, parsed, msg, rest, links>>

SelectLookup(value) ==
    /\ Building
    /\ sel # None
    /\ call' = [op |-> "lookup_message", value |-> value]
    /\ ret' = SelectFormat_lookup_message(sel[1], value)
    /\ UNCHANGED <<text, frags, parsed, msg, rest, links, sel, mapCalls>>

SelectApply(sink, a) ==
    /\ Building
    /\ sel # None
    /\ call' = [op |-> "SelectFormat::apply_format", sink |-> sink,
                links |-> a.links, args |-> a.self]
    /\ ret' = SelectFormat_apply_format(sel[1], Context_new, sink, a.links, a.self)
    /\ UNCHANGED <<text, frags, parsed, msg, rest, links, sel, mapCalls>>

NextSelect ==
    \/ \E default \in BranchMessages : SelectNew("x", default)
    \/ \E value \in SelectValues, message \in BranchMessages : SelectMap(value, message)
    \/ \E value \in LookupValues : SelectLookup(value)
    \/ \E sink \in Sinks, a \in ArgsPool : SelectApply(sink, a)

SpecSelect == Init /\ [][NextSelect]_vars

\* The message of the first map() call made with that value, if any.
FirstMapped(value) ==
    LET hits == {i \in 1..Len(mapCalls) : mapCalls[i].value = value}
    IN  IF hits = {} THEN None ELSE Some(mapCalls[Min(hits)].message)

\* C6: lookup_message(value) returns the message of the first map() call, in
\* the order the calls were made, whose value equals `value`, and the default
\* message when no call mapped that value; also when a value was mapped more
\* than once.
C6_FirstMappingWins ==
    call.op = "lookup_message" =>
        ret = (IF FirstMapped(call.value) = None THEN sel[1].default
               ELSE FirstMapped(call.value)[1])

\* A lookup of a value mapped twice, to different messages.
C6_Witness ==
    /\ call.op = "lookup_message"
    /\ \E i, j \in 1..Len(mapCalls) :
          /\ i < j
          /\ mapCalls[i].value = call.value
          /\ mapCalls[j].value = call.value
          /\ mapCalls[i].message # mapCalls[j].message
          /\ ret = mapCalls[i].message

\* The text of a Message of PlainText parts.
RECURSIVE PlainTextOf(_)
PlainTextOf(parts) ==
    IF parts = <<>> THEN "" ELSE Head(parts).text \o PlainTextOf(Tail(parts))

\* C7: SelectFormat.apply_format fails when its variable is absent from Args
\* or bound to a value that is not a string, and then writes nothing and does
\* not use the default message; the default message is written only when the
\* variable is a string no mapping equals.
C7_SelectNeedsString ==
    call.op = "SelectFormat::apply_format" =>
        LET a == Bound(call.links, call.args, sel[1].variable_name)
        IN  IF a = None \/ a[1].kind # "Str"
            THEN ret.res = "Err" /\ ret.stream = call.sink
            ELSE /\ ret.res = "Ok"
                 /\ ret.stream = call.sink \o PlainTextOf(
                        (IF FirstMapped(a[1].s) = None THEN sel[1].default
                         ELSE FirstMapped(a[1].s)[1]).parts)

\* apply_format of a select with a mapping, its variable bound to a number.
C7_Witness ==
    /\ call.op = "SelectFormat::apply_format"
    /\ mapCalls # <<>>
    /\ Bound(call.links, call.args, sel[1].variable_name) = Some(Value_Number(1))
    /\ ret.res = "Err"
    /\ ret.stream = call.sink

(***************************************************************************)
(* Building a Message by hand, then one call on it.                        *)
(***************************************************************************)
NewMessage(parts) ==
    /\ call = NoCall
    /\ msg' = Message_new(parts)
    /\ call' = [op |-> "Message::new"]
    /\ UNCHANGED <<text, frags, parsed, rest, links, sel, mapCalls, ret>>

Callable == call.op \in {"none", "Message::new"}

WriteMessage(sink, a) ==
    /\ Callable
    /\ call' = [op |-> "write_message", sink |-> sink,
                links |-> a.links, args |-> a.self]
    /\ ret' = Message_write_message(msg, sink, a.links, a.self)
    /\ UNCHANGED <<text, frags, parsed, msg, rest, links, sel, mapCalls>>

FormatMessage(a) ==
    /\ Callable
    /\ call' = [op |-> "format_message", links |-> a.links, args |-> a.self]
    /\ ret' = Message_format_message(msg, a.links, a.self)
    /\ UNCHANGED <<text, frags, parsed, msg, rest, links, sel, mapCalls>>

\* apply_format called on a part by itself.
ApplyFormat(part, sink, a) ==
    /\ call = NoCall
    /\ call' = [op |-> "apply_format", part |-> part, sink |-> sink,
                links |-> a.links, args |-> a.self]
    /\ ret' = MessagePart_apply_format(part, Context_new, sink, a.links, a.self)
    /\ UNCHANGED <<text, frags, parsed, msg, rest, links, sel, mapCalls>>

NextFormat ==
    \/ \E parts \in SeqsUpTo(PartPool, MaxParts) : NewMessage(parts)
    \/ \E sink \in Sinks, a \in ArgsPool : WriteMessage(sink, a)
    \/ \E a \in ArgsPool : FormatMessage(a)
    \/ \E part \in PartPool, sink \in Sinks, a \in ArgsPool :
            ApplyFormat(part, sink, a)

SpecFormat == Init /\ [][NextFormat]_vars

\* What part i of the Message writes, and whether it fails, when it is
\* applied on its own to an empty sink with the arguments of the call.
Alone(i) ==
    MessagePart_apply_format(msg.parts[i], Context_new, "", call.links, call.args)

Failing == {i \in 1..Len(msg.parts) : Alone(i).res = "Err"}

\* What parts 1..n write one after the other.
RECURSIVE OutputUpTo(_)
OutputUpTo(n) == IF n = 0 THEN "" ELSE OutputUpTo(n - 1) \o Alone(n).stream

\* C3: write_message applies the parts in order and stops at the first that
\* fails: it returns the error, applies no later part, and what the earlier
\* parts wrote stays in the sink; when no part fails it returns Ok, having
\* applied every part.
C3_WriteStopsAtFirstFailure ==
    call.op = "write_message" =>
        IF Failing = {}
        THEN /\ ret.res = "Ok"
             /\ ret.applied = Len(msg.parts)
             /\ ret.stream = call.sink \o OutputUpTo(Len(msg.parts))
        ELSE LET before == call.sink \o OutputUpTo(Min(Failing) - 1)
             IN  /\ ret.res = "Err"
                 /\ ret.applied = Min(Failing)
                 /\ Take(ret.stream, Len(before)) = before

\* A write that failed at a part after parts that wrote, with a part left.
C3_Witness ==
    /\ call.op = "write_message"
    /\ Failing # {}
    /\ Min(Failing) > 1
    /\ Min(Failing) < Len(msg.parts)
    /\ OutputUpTo(Min(Failing) - 1) # ""
    /\ ret.res = "Err"

\* C4 as claimed: format_message returns the full output when no part fails
\* and the output of the parts before the first failing part when one fails.
C4_OutputOfPartsBeforeFailure ==
    call.op = "format_message" =>
        ret = OutputUpTo(IF Failing = {} THEN Len(msg.parts) ELSE Min(Failing) - 1)

\* C4, amended: format_message never fails and returns what write_message
\* wrote to an empty sink: the full output when no part fails, else the
\* output of the parts before the first failing part followed by what the
\* failing part itself wrote before it failed.
C4_OutputUpToFailure ==
    call.op = "format_message" =>
        ret = (IF Failing = {} THEN OutputUpTo(Len(msg.parts))
               ELSE OutputUpTo(Min(Failing)))

\* A format_message whose failing part, a select, wrote before it failed.
C4_Witness ==
    /\ call.op = "format_message"
    /\ Failing # {}
    /\ Alone(Min(Failing)).stream # ""
    /\ OutputUpTo(Min(Failing) - 1) # ""
    /\ ret = OutputUpTo(Min(Failing))

\* C8: SimpleFormat.apply_format fails when its variable is absent from Args
\* and then writes nothing; when the variable is present it writes the
\* value's display form, that and no more, and succeeds.
C8_SimpleNeedsArgument ==
    (call.op = "apply_format" /\ call.part.type = "SimpleFormat") =>
        LET a == Bound(call.links, call.args, call.part.variable_name)
        IN  IF a = None
            THEN ret.res = "Err" /\ ret.stream = call.sink
            ELSE ret.res = "Ok" /\ ret.stream = call.sink \o Value_fmt(a[1])

\* apply_format of a SimpleFormat whose variable the chain does not have,
\* though it has another.
C8_Witness ==
    /\ call.op = "apply_format"
    /\ call.part.type = "SimpleFormat"
    /\ call.args # EmptyArgs
    /\ Bound(call.links, call.args, call.part.variable_name) = None
    /\ ret.res = "Err"
    /\ ret.stream = call.sink

(***************************************************************************)
(* A plural template, parsed and then formatted with a number.             *)
(***************************************************************************)
TypePlural(n, a, b, c) ==
    /\ text = ""
    /\ parsed = "none"
    /\ call = NoCall
    /\ text' = PluralTemplate(n, a, b, c)
    /\ frags' = 1
    /\ UNCHANGED <<parsed, msg, rest, links, sel, mapCalls, call, ret>>

NextPlural ==
    \/ \E n \in PluralLiterals, a \in LiteralBodies, b \in OneBodies,
          c \in OtherBodies : TypePlural(n, a, b, c)
    \/ text # "" /\ Parse
    \/ \E k \in PluralCounts :
          /\ parsed = "Ok"
          /\ FormatMessage([links |-> arg(<<>>, "v", Value_Number(k)), self |-> 1])

SpecPlural == Init /\ [][NextPlural]_vars

\* A branch body with every `#` replaced by the number.
RECURSIVE Filled(_, _)
Filled(body, k) ==
    IF body = "" THEN ""
    ELSE (IF CharAt(body, 1) = "#" THEN i64_to_string(k) ELSE CharAt(body, 1))
            \o Filled(Drop(body, 1), k)

\* C9: a template {v, plural, =N {A} one {B} other {C}} parses, and formatted
\* with a number v it gives A when v = N (also when v is not 1), else B when
\* v = 1, else C, with each `#` of the chosen branch replaced by v.
C9_PluralResolution ==
    \A n \in PluralLiterals, a \in LiteralBodies, b \in OneBodies,
       c \in OtherBodies :
        text = PluralTemplate(n, a, b, c) =>
            /\ parsed # "none" => (parsed = "Ok" /\ rest = "")
            /\ call.op = "format_message" =>
                  LET k == call.links[call.args].value.n
                  IN  ret = Filled(IF k = n THEN a ELSE IF k = 1 THEN b ELSE c, k)

\* The literal =54 chosen for 54, its `#` filled in.
C9_Witness ==
    /\ call.op = "format_message"
    /\ text = PluralTemplate(54, "# exactly", "1 day", "# days")
    /\ call.links[call.args].value = Value_Number(54)
    /\ ret = "54 exactly"

=============================================================================
